---- MODULE Spec2Model ----
(***************************************************************************)
(* A model of app.py of aurora-demo: the demo-data generator               *)
(* generate_demo, the icon generator molecule_svg, and the Streamlit       *)
(* script rerun that calls them behind the session flag "run".             *)
(*                                                                         *)
(* Numbers with two decimals are kept as integers in hundredths            *)
(* (0.70 is 70).  Arithmetic is exact (rationals), so the binary floating  *)
(* point error of the last digit of a product is not modelled.             *)
(* Python's Mersenne Twister is abstracted to a full-period linear         *)
(* congruential generator over PrngStates states; a draw random() is       *)
(* state / PrngStates, a number of [0, 1).                                 *)
(***************************************************************************)
EXTENDS Integers, Sequences, FiniteSets, TLC

VARIABLES
    gstate,       \* state of the module-level generator of `random` (shared)
    sortKind,     \* what this build's sort does with equal keys
    ret,          \* arguments and outcome of the last generate_demo call
    saved,        \* history: an earlier generate_demo call, kept for comparison
    extDraws,     \* draws other code made on `random` since the last call
    calls,        \* the two interleaved generate_demo calls (SpecConc)
    salt,         \* the string-hash randomization of the running process
    iconRet,      \* arguments and document of the last molecule_svg call
    iconSaved,    \* history: an earlier molecule_svg call
    session,      \* st.session_state of the session
    clicked,      \* history: "Run search" was clicked in this session
    shown         \* what the last rerun displayed in the results section

vars == <<gstate, sortKind, ret, saved, extDraws, calls, salt, iconRet,
          iconSaved, session, clicked, shown>>

----------------------------------------------------------------------------
(* Bounds of the model *)

MaxCount == 3
MaxSeed == 7
MaxExtDraws == 1

Counts == (0 - 1) .. MaxCount
Seeds == 0 .. MaxSeed

NoCall == [kind |-> "none"]

----------------------------------------------------------------------------
(* The generator of `random` *)

PrngStates == 128
LcgA == 81
LcgC == 23

\* random.seed(seed) / random.Random(seed): the state a seed selects
Seed(seed) == seed % PrngStates

\* one draw: the generator moves on; the new state is the number drawn
Advance(s) == (LcgA * s + LcgC) % PrngStates

\* round(x, 2) of the exact x = num / den hundredths, ties to even
RoundHalfEven(num, den) ==
    LET q == num \div den
        r == num % den
    IN  IF 2 * r < den THEN q
        ELSE IF 2 * r > den THEN q + 1
        ELSE IF q % 2 = 0 THEN q ELSE q + 1

\* round(random.uniform(lo, hi), 2) for the draw u / PrngStates, in hundredths
RoundedUniform(lo, hi, u) == RoundHalfEven(lo * PrngStates + (hi - lo) * u, PrngStates)

\* random.randint(lo, hi) for the draw u / PrngStates
RandInt(lo, hi, u) == lo + ((hi - lo + 1) * u) \div PrngStates

----------------------------------------------------------------------------
(* generate_demo *)

ActivityLo == 30
ActivityHi == 95
ToxicityLo == 10
ToxicityHi == 80
PriorityActivity == 70
PriorityToxicity == 50

RECURSIVE Digits(_)
\* the decimal digits of i >= 0, most significant first
Digits(i) == IF i < 10 THEN <<i>> ELSE Append(Digits(i \div 10), i % 10)

RECURSIVE ZeroPad(_, _)
\* the format {:0wd}: zeros on the left up to width w, never a cut
ZeroPad(d, w) == IF Len(d) >= w THEN d ELSE ZeroPad(<<0>> \o d, w)

MolNameWidth2(i) == [prefix |-> "Mol-", digits |-> ZeroPad(Digits(i), 2)]

\* f"Mol-{i:03d}"
MolName(i) == [prefix |-> "Mol-", digits |-> ZeroPad(Digits(i), 3)]

ScoreNoClamp(activity, toxicity) == RoundHalfEven(activity * (100 - toxicity), 80)

\* round(max(0.0, min(1.0, activity * (1 - toxicity) * 1.25)), 2):
\* in hundredths the product is activity * (100 - toxicity) / 80
Score(activity, toxicity) ==
    LET raw == activity * (100 - toxicity)
        hi == IF raw < 100 * 80 THEN raw ELSE 100 * 80
        clamped == IF hi > 0 THEN hi ELSE 0
    IN  RoundHalfEven(clamped, 80)

LabelStrict(activity, toxicity) ==
    IF activity > PriorityActivity /\ toxicity <= PriorityToxicity
    THEN "priority" ELSE "reserve"

\* "priority" if (activity >= 0.7 and toxicity <= 0.5) else "reserve"
Label(activity, toxicity) ==
    IF activity >= PriorityActivity /\ toxicity <= PriorityToxicity
    THEN "priority" ELSE "reserve"

\* one pass of the loop body for index i with the draws u1, u2
Row(i, u1, u2) ==
    LET activity == RoundedUniform(ActivityLo, ActivityHi, u1)
        toxicity == RoundedUniform(ToxicityLo, ToxicityHi, u2)
    IN  [Molecule |-> MolName(i),
         Activity |-> activity,
         Toxicity |-> toxicity,
         Score    |-> Score(activity, toxicity),
         Status   |-> Label(activity, toxicity)]

RECURSIVE Loop(_, _, _, _)
\* the passes i .. n of the loop, from generator state s with `rows` made
Loop(i, n, s, rows) ==
    IF i > n THEN [rows |-> rows, state |-> s]
    ELSE Loop(i + 1, n, Advance(Advance(s)),
              Append(rows, Row(i, Advance(s), Advance(Advance(s)))))

\* the loop for i in range(1, n+1) from generator state s: the rows in
\* generation order and the generator state it leaves
DrawRows(n, s) == Loop(1, n, s, <<>>)

\* the position sort_values puts first among those left: the highest
\* score; among equal scores the build's sort decides (pandas' default
\* kind is quicksort, which is not stable)
First(rows, left, kind) ==
    LET top == {i \in left : \A j \in left : rows[j].Score <= rows[i].Score}
    IN  IF kind = "stable"
        THEN CHOOSE i \in top : \A j \in top : i <= j
        ELSE CHOOSE i \in top : \A j \in top : i >= j

RECURSIVE Order(_, _, _)
Order(rows, left, kind) ==
    IF left = {} THEN <<>>
    ELSE LET i == First(rows, left, kind)
         IN  <<rows[i]>> \o Order(rows, left \ {i}, kind)

\* DataFrame(rows).sort_values("Composite score", ascending=False)
\*     .reset_index(drop=True)
sort_values(rows, kind) == Order(rows, DOMAIN rows, kind)

generate_demo_unseeded(n, seed, g, kind) ==
    LET d == DrawRows(n, g)
    IN  IF d.rows = <<>>
        THEN [kind |-> "KeyError", df |-> <<>>, state |-> d.state]
        ELSE [kind |-> "ok", df |-> sort_values(d.rows, kind), state |-> d.state]

\* generate_demo(n, seed) called when the module-level generator is in
\* state g: the outcome and the state the generator is left in.  With no
\* rows the frame has no column "Composite score" and sort_values raises
\* KeyError, after random.seed has already run.
generate_demo(n, seed, g, kind) ==
    LET d == DrawRows(n, Seed(seed))
    IN  IF d.rows = <<>>
        THEN [kind |-> "KeyError", df |-> <<>>, state |-> d.state]
        ELSE [kind |-> "ok", df |-> sort_values(d.rows, kind), state |-> d.state]

----------------------------------------------------------------------------
(* Sequential calls of generate_demo in one process *)

\* st.session_state of a new session: no key
EmptyState == [key \in {} |-> TRUE]

\* st.session_state.get(key): None, which is falsy, for a missing key
Get(session_state, key) ==
    IF key \in DOMAIN session_state THEN session_state[key] ELSE FALSE

Idle == [c \in {1, 2} |-> [pc |-> "idle"]]

InitShared ==
    /\ gstate = 0
    /\ sortKind \in {"stable", "unstable"}
    /\ ret = NoCall
    /\ saved = NoCall
    /\ extDraws = 0
    /\ calls = Idle
    /\ salt = 0
    /\ iconRet = NoCall
    /\ iconSaved = NoCall
    /\ session = EmptyState
    /\ clicked = FALSE
    /\ shown = [results |-> FALSE]

Init == InitShared

\* a whole call generate_demo(n, seed)
GenerateDemo(n, seed) ==
    \E r \in {generate_demo(n, seed, gstate, sortKind)} :
        /\ gstate' = r.state
        /\ ret' = [kind |-> r.kind, n |-> n, seed |-> seed, df |-> r.df]
        /\ extDraws' = 0
        /\ UNCHANGED <<sortKind, saved, calls, salt, iconRet, iconSaved,
                       session, clicked, shown>>

\* history only: the caller keeps the outcome it was handed, to compare a
\* later call with
Remember ==
    /\ ret # NoCall
    /\ saved' = ret
    /\ ret' = NoCall
    /\ UNCHANGED <<gstate, sortKind, extDraws, calls, salt, iconRet,
                   iconSaved, session, clicked, shown>>

\* any other code of the process draws from the module-level generator
OtherDraw ==
    /\ extDraws < MaxExtDraws
    /\ gstate' = Advance(gstate)
    /\ extDraws' = extDraws + 1
    /\ UNCHANGED <<sortKind, ret, saved, calls, salt, iconRet, iconSaved,
                   session, clicked, shown>>

Next ==
    \/ \E n \in Counts, seed \in Seeds : GenerateDemo(n, seed)
    \/ Remember
    \/ OtherDraw

Spec == Init /\ [][Next]_vars

----------------------------------------------------------------------------
(* Interleaved calls of generate_demo: two callers, one step per draw *)

MaxConcCount == 2
MaxConcSeed == 2

\* random.seed(seed) and rows = [] of caller c
Start(c, n, seed) ==
    /\ calls[c].pc = "idle"
    /\ gstate' = Seed(seed)
    /\ calls' = [calls EXCEPT ![c] =
                    [pc |-> "activity", n |-> n, seed |-> seed, i |-> 1,
                     u1 |-> 0, rows |-> <<>>]]
    /\ UNCHANGED <<sortKind, ret, saved, extDraws, salt, iconRet, iconSaved,
                   session, clicked, shown>>

\* activity = round(random.uniform(0.30, 0.95), 2) of caller c
DrawActivity(c) ==
    /\ calls[c].pc = "activity"
    /\ calls[c].i <= calls[c].n
    /\ gstate' = Advance(gstate)
    /\ calls' = [calls EXCEPT ![c].pc = "toxicity", ![c].u1 = gstate']
    /\ UNCHANGED <<sortKind, ret, saved, extDraws, salt, iconRet, iconSaved,
                   session, clicked, shown>>

\* toxicity = round(random.uniform(0.10, 0.80), 2) and the rest of the
\* loop body of caller c
DrawToxicity(c) ==
    /\ calls[c].pc = "toxicity"
    /\ gstate' = Advance(gstate)
    /\ calls' = [calls EXCEPT
                    ![c].pc = "activity",
                    ![c].rows = Append(@, Row(calls[c].i, calls[c].u1, gstate')),
                    ![c].i = @ + 1]
    /\ UNCHANGED <<sortKind, ret, saved, extDraws, salt, iconRet, iconSaved,
                   session, clicked, shown>>

\* the loop is over: sort and return
Finish(c) ==
    /\ calls[c].pc = "activity"
    /\ calls[c].i > calls[c].n
    /\ calls' = [calls EXCEPT ![c] =
                    [pc |-> "done", n |-> calls[c].n, seed |-> calls[c].seed,
                     kind |-> IF calls[c].rows = <<>> THEN "KeyError" ELSE "ok",
                     df |-> IF calls[c].rows = <<>> THEN <<>>
                            ELSE sort_values(calls[c].rows, sortKind)]]
    /\ UNCHANGED <<gstate, sortKind, ret, saved, extDraws, salt, iconRet,
                   iconSaved, session, clicked, shown>>

NextConc ==
    \/ \E c \in {1, 2}, n \in 1 .. MaxConcCount, seed \in 0 .. MaxConcSeed :
          Start(c, n, seed)
    \/ \E c \in {1, 2} : DrawActivity(c)
    \/ \E c \in {1, 2} : DrawToxicity(c)
    \/ \E c \in {1, 2} : Finish(c)

SpecConc == Init /\ [][NextConc]_vars

----------------------------------------------------------------------------
(* molecule_svg *)

MaxSalt == 1
MaxSize == 2

Salts == 0 .. MaxSalt

HashMod == 67108864
SeedModPrimary == 10000000
SeedModCount == 1000000
IconSize == 64

RECURSIVE HashFrom(_, _)
HashFrom(h, codes) ==
    IF codes = <<>> THEN h
    ELSE HashFrom((h * 31 + Head(codes)) % HashMod, Tail(codes))

\* hash(s) of the string with character codes `codes` in a process whose
\* hash randomization is s: str hashes are salted per process
\* (PYTHONHASHSEED), equal within a process and not across processes
Hash(codes, s) == HashFrom((s * 1000003 + 5381) % HashMod, codes)

\* the characters of a molecule name: "Mol-" and the digits
NameCodes(name) == <<77, 111, 108, 45>> \o [k \in 1 .. Len(name.digits) |-> 48 + name.digits[k]]

\* line(x1, y1, x2, y2, w, col): the points are kept by what they are
\* (their coordinates follow from size and rot), the width in tenths
line(p1, p2, w, col) == [tag |-> "line", p1 |-> p1, p2 |-> p2, w |-> w, col |-> col]

Vertex(k) == [pt |-> "vertex", k |-> k]
Shifted(k) == [pt |-> "vertex+offset", k |-> k]
Tip(k) == [pt |-> "tip", k |-> k]

DoubleBondEveryEdge == <<0, 1, 2, 3, 4, 5>>

\* range(0, 6, 2)
DoubleBondEdges == <<0, 2, 4>>

RECURSIVE Substituents(_, _)
\* the loop for _ in range(n_sub) from state s of rng: the elements in
\* order, one line and one dot per pass
Substituents(n, s) ==
    IF n <= 0 THEN <<>>
    ELSE LET u == Advance(s)
             i == RandInt(0, 5, u)
         IN  <<line(Vertex(i), Tip(i), 15, "#243045"),
               [tag |-> "circle", c |-> Tip(i), r |-> 18, fill |-> "#0F172A"]>>
             \o Substituents(n - 1, u)

\* molecule_svg(name, size) in a process with hash randomization s
molecule_svg(name, size, s) ==
    LET h     == Hash(NameCodes(name), s)
        rng   == Seed(h % SeedModPrimary)
        rot   == Advance(rng)
        n_sub == RandInt(1, 3, Advance(Seed(h % SeedModCount)))
    IN  [size  |-> size,
         rot   |-> rot,
         bg    |-> [tag |-> "circle", c |-> [pt |-> "centre", k |-> 0],
                    r |-> 44 * size, fill |-> "#27B3B111"],
         edges |-> [k \in 1 .. 6 |->
                      line(Vertex(k - 1), Vertex(k % 6), 18, "#111827")],
         dbl   |-> [j \in 1 .. Len(DoubleBondEdges) |->
                      line(Shifted(DoubleBondEdges[j]),
                           Shifted((DoubleBondEdges[j] + 1) % 6), 12, "#1F2937")],
         subs  |-> Substituents(n_sub, rot)]

Names == {MolName(i) : i \in 1 .. MaxCount}
Sizes == (1 .. MaxSize) \cup {IconSize}

\* a whole call molecule_svg(name, size): it draws from its own Random
\* objects only
MoleculeSvg(name, size) ==
    /\ iconRet' = [kind |-> "ok", name |-> name, size |-> size,
                   doc |-> molecule_svg(name, size, salt)]
    /\ UNCHANGED <<gstate, sortKind, ret, saved, extDraws, calls, salt,
                   iconSaved, session, clicked, shown>>

\* history only: the caller keeps the document it was handed
RememberIcon ==
    /\ iconRet # NoCall
    /\ iconSaved' = iconRet
    /\ iconRet' = NoCall
    /\ UNCHANGED <<gstate, sortKind, ret, saved, extDraws, calls, salt,
                   session, clicked, shown>>

\* the process ends and the script runs in a new one: a new hash
\* randomization, a freshly seeded `random`, no session
Restart ==
    /\ \E e1 \in Salts, e2 \in Salts :
          /\ salt' = e1
          /\ gstate' = Seed(e2)
    /\ session' = EmptyState
    /\ clicked' = FALSE
    /\ shown' = [results |-> FALSE]
    /\ extDraws' = 0
    /\ UNCHANGED <<sortKind, ret, saved, calls, iconRet, iconSaved>>

NextIcon ==
    \/ \E name \in Names, size \in Sizes : MoleculeSvg(name, size)
    \/ RememberIcon
    \/ Restart

SpecIcon == Init /\ [][NextIcon]_vars

----------------------------------------------------------------------------
(* The script: one rerun per interaction of the session *)

MaxTarget == 2
MaxSlide == 1

DemoRows == 10
RunIdMod == 1000000
ToxDefault == 60
ToxStep == 5
TopNMin == 3
TopNMax == 10

\* the first MaxTarget entries of the list `targets`, by position
Targets == 1 .. MaxTarget
\* positions of the slider "Toxicity threshold", in hundredths: the
\* default and up to MaxSlide steps below it
MaxToxChoices == {ToxDefault - ToxStep * k : k \in 0 .. MaxSlide}
\* positions of the slider "Number of candidates"
TopNChoices == TopNMin .. TopNMax

\* the characters of a target: its position in the list stands for them
TargetCodes(target) == <<target>>

RunFlagFollowsButton(session_state, run) == [key \in {"run"} |-> run]

\* if run: st.session_state["run"] = True
RunFlag(session_state, run) ==
    IF run THEN [key \in DOMAIN session_state \cup {"run"} |-> TRUE]
    ELSE session_state

\* df_all[df_all["Toxicity"] <= max_tox].head(top_n)
df_view(df_all, max_tox, top_n) ==
    LET kept == SelectSeq(df_all, LAMBDA r : r.Toxicity <= max_tox)
    IN  SubSeq(kept, 1, IF Len(kept) < top_n THEN Len(kept) ELSE top_n)

\* one run of the script, top to bottom, with the widget values of the
\* interaction that caused it
Rerun(run, target, max_tox, top_n) ==
    LET state == RunFlag(session, run)
        seed  == Hash(TargetCodes(target), salt) % RunIdMod
    IN  /\ session' = state
        /\ clicked' = (clicked \/ run)
        /\ IF Get(state, "run")
           THEN \E r \in {generate_demo(DemoRows, seed, gstate, sortKind)} :
                \E view \in {df_view(r.df, max_tox, top_n)} :
                    /\ gstate' = r.state
                    /\ extDraws' = 0
                    /\ ret' = [kind |-> r.kind, n |-> DemoRows, seed |-> seed,
                               df |-> r.df]
                    /\ shown' = [results |-> TRUE, run |-> run, target |-> target,
                                 run_id |-> seed, table |-> view,
                                 cards |-> [k \in 1 .. Len(view) |->
                                     molecule_svg(view[k].Molecule, IconSize, salt)]]
                    /\ iconRet' = IF view = <<>> THEN iconRet
                                  ELSE [kind |-> "ok", name |-> view[Len(view)].Molecule,
                                        size |-> IconSize, doc |-> shown'.cards[Len(view)]]
           ELSE /\ shown' = [results |-> FALSE]
                /\ UNCHANGED <<gstate, extDraws, ret, iconRet>>
        /\ UNCHANGED <<sortKind, saved, calls, salt, iconSaved>>

\* the browser opens a new session of the same process
NewSession ==
    /\ session' = EmptyState
    /\ clicked' = FALSE
    /\ shown' = [results |-> FALSE]
    /\ UNCHANGED <<gstate, sortKind, ret, saved, extDraws, calls, salt,
                   iconRet, iconSaved>>

NextApp ==
    \/ \E run \in BOOLEAN, target \in Targets, max_tox \in MaxToxChoices,
          top_n \in TopNChoices : Rerun(run, target, max_tox, top_n)
    \/ NewSession
    \/ Restart

SpecApp == Init /\ [][NextApp]_vars

----------------------------------------------------------------------------
(* Properties of generate_demo *)

RECURSIVE Value(_)
\* the number a digit sequence writes
Value(d) == IF d = <<>> THEN 0 ELSE 10 * Value(SubSeq(d, 1, Len(d) - 1)) + d[Len(d)]

Returned == ret # NoCall /\ ret.kind = "ok"

\* C1: each generate_demo call is isolated: interleaved with another call
\* draw by draw, a finished call has the batch the same call returns when
\* it runs alone.
C1_InterleavedCallReturnsItsOwnBatch ==
    \A c \in {1, 2} :
        calls[c].pc = "done" =>
            /\ calls[c].kind = generate_demo(calls[c].n, calls[c].seed, 0, sortKind).kind
            /\ calls[c].df = generate_demo(calls[c].n, calls[c].seed, 0, sortKind).df

\* C2: two sequential calls with the same (count, seed), count >= 1,
\* return the same sequence element for element, whatever was drawn or
\* generated before or between them.
C2_SameArgumentsSameBatch ==
    (/\ Returned
     /\ saved # NoCall
     /\ saved.n = ret.n
     /\ saved.seed = ret.seed) => saved.df = ret.df

C2_Witness ==
    /\ Returned
    /\ saved # NoCall
    /\ saved.n = ret.n
    /\ saved.seed = ret.seed
    /\ ret.n >= 2
    /\ saved.df = ret.df
    /\ ret.df[1] # ret.df[2]

\* C4: in a returned batch every record has a higher composite score than
\* the next one, or the same score and a smaller generation index.
C4_SortedDescendingTiesInGenerationOrder ==
    Returned =>
        \A k \in 1 .. Len(ret.df) - 1 :
            LET a == ret.df[k]
                b == ret.df[k + 1]
            IN  \/ a.Score > b.Score
                \/ /\ a.Score = b.Score
                   /\ Value(a.Molecule.digits) < Value(b.Molecule.digits)

\* C5: a call with count >= 1 returns exactly count records, named
\* Mol-001 .. Mol-<count> (three digits, zeros on the left), each once.
C5_CountRecordsNamedOnce ==
    (ret # NoCall /\ ret.n >= 1) =>
        /\ ret.kind = "ok"
        /\ Len(ret.df) = ret.n
        /\ \A i \in 1 .. ret.n :
              Cardinality({k \in 1 .. Len(ret.df) :
                  /\ ret.df[k].Molecule.prefix = "Mol-"
                  /\ Len(ret.df[k].Molecule.digits) = 3
                  /\ Value(ret.df[k].Molecule.digits) = i}) = 1

C5_Witness ==
    /\ Returned
    /\ ret.n = MaxCount
    /\ Len(ret.df) = MaxCount
    /\ ret.df[1].Molecule.digits # <<0, 0, 1>>

\* C6: a record's status is "priority" exactly when its stored activity is
\* at least 0.70 and its stored toxicity at most 0.50, and "reserve"
\* otherwise.
C6_StatusRule ==
    Returned =>
        \A k \in 1 .. Len(ret.df) :
            LET r == ret.df[k]
            IN  /\ r.Status \in {"priority", "reserve"}
                /\ r.Status = "priority" <=> (r.Activity >= 70 /\ r.Toxicity <= 50)

C6_Witness ==
    /\ Returned
    /\ \E k \in 1 .. Len(ret.df) :
          ret.df[k].Status = "priority" /\ ret.df[k].Activity = 70
    /\ \E k \in 1 .. Len(ret.df) :
          ret.df[k].Status = "reserve" /\ ret.df[k].Toxicity <= 50

\* C7: every record has 0.30 <= activity <= 0.95, 0.10 <= toxicity <= 0.80
\* and 0 <= score <= 1, the score being activity * (1 - toxicity) * 1.25
\* cut to [0, 1] and rounded to two decimals (within half a hundredth).
C7_Ranges ==
    Returned =>
        \A k \in 1 .. Len(ret.df) :
            LET r == ret.df[k]
                raw == r.Activity * (100 - r.Toxicity)
                cut == IF raw > 8000 THEN 8000 ELSE raw
            IN  /\ 30 <= r.Activity /\ r.Activity <= 95
                /\ 10 <= r.Toxicity /\ r.Toxicity <= 80
                /\ 0 <= r.Score /\ r.Score <= 100
                /\ 80 * r.Score - cut <= 40
                /\ cut - 80 * r.Score <= 40

C7_Witness ==
    /\ Returned
    /\ \E k \in 1 .. Len(ret.df) :
          /\ ret.df[k].Activity * (100 - ret.df[k].Toxicity) > 8000
          /\ ret.df[k].Score = 100

\* C8: a call with count <= 0 ends with the error InvalidArgument.
C8_NonPositiveCountIsInvalidArgument ==
    (ret # NoCall /\ ret.n <= 0) => ret.kind = "InvalidArgument"

\* C3: for fixed (name, size) every molecule_svg call returns the same
\* document, also in another run of the program.
C3_SameNameSameIcon ==
    (/\ iconRet # NoCall
     /\ iconSaved # NoCall
     /\ iconSaved.name = iconRet.name
     /\ iconSaved.size = iconRet.size) => iconSaved.doc = iconRet.doc

\* C9: an icon has exactly 6 outer edges, edge k from vertex k to vertex
\* (k+1) mod 6, exactly 3 double-bond lines, on edges 0, 2 and 4, and 1 to 3
\* substituents, each one line from a vertex 0..5 and then one dot at the
\* end of that line.
C9_IconStructure ==
    iconRet # NoCall =>
        LET d == iconRet.doc
            n_sub == Len(d.subs) \div 2
        IN  /\ Len(d.edges) = 6
            /\ \A k \in 0 .. 5 :
                  /\ d.edges[k + 1].tag = "line"
                  /\ d.edges[k + 1].p1 = [pt |-> "vertex", k |-> k]
                  /\ d.edges[k + 1].p2 = [pt |-> "vertex", k |-> (k + 1) % 6]
            /\ Len(d.dbl) = 3
            /\ \A j \in 1 .. Len(d.dbl) :
                  /\ d.dbl[j].tag = "line"
                  /\ d.dbl[j].p1 = [pt |-> "vertex+offset", k |-> 2 * (j - 1)]
                  /\ d.dbl[j].p2 = [pt |-> "vertex+offset", k |-> (2 * j - 1) % 6]
            /\ Len(d.subs) = 2 * n_sub
            /\ 1 <= n_sub /\ n_sub <= 3
            /\ \A m \in 1 .. n_sub :
                  /\ d.subs[2 * m - 1].tag = "line"
                  /\ d.subs[2 * m - 1].p1.pt = "vertex"
                  /\ d.subs[2 * m - 1].p1.k \in 0 .. 5
                  /\ d.subs[2 * m - 1].p2 = [pt |-> "tip", k |-> d.subs[2 * m - 1].p1.k]
                  /\ d.subs[2 * m].tag = "circle"
                  /\ d.subs[2 * m].c = d.subs[2 * m - 1].p2

C9_Witness ==
    /\ iconRet # NoCall
    /\ Len(iconRet.doc.subs) = 6
    /\ iconRet.doc.subs[1].p1 # iconRet.doc.subs[3].p1
    /\ iconSaved # NoCall
    /\ Len(iconSaved.doc.subs) = 2

\* C10: a rerun displays the results section exactly when "Run search" was
\* clicked in that rerun or in an earlier rerun of the session; the flag is
\* absent at first and, once set, stays set.
C10_ResultsIffClicked ==
    /\ shown.results = clicked
    /\ ("run" \in DOMAIN session) = clicked
    /\ "run" \in DOMAIN session => session["run"] = TRUE

C10_Witness ==
    /\ clicked
    /\ shown.results
    /\ ~shown.run
    /\ shown.target = 2
    /\ Len(shown.table) = TopNMin

====
